---- MODULE Spec2Model ----
(***************************************************************************)
(* Model of the file batching utilities: the FileBatcher class of          *)
(* file-batch-utils.js (constructor, createBatches, addFilesBatched,       *)
(* commitFilesBatched) and the batch loop of the safe-git-add shell        *)
(* script.  Calls to the git binary (execSync / git add / git commit) are  *)
(* environment steps whose success or failure is chosen                    *)
(* nondeterministically; every such call is recorded in `trace`.           *)
(***************************************************************************)
EXTENDS Integers, Sequences, FiniteSets, TLC

\* ---------------------------------------------------------------- bounds
MaxLen == 4          \* longest file list explored
MaxSize == 3         \* largest explicit batch size explored
MaxStatus == 3       \* most lines of a git status report explored
MaxIter == MaxLen + 2 \* loop iterations of createBatches followed before it is declared non-terminating

\* ------------------------------------------------------ program constants
DefaultBatchSize == 50
DefaultDelay == 100
ScriptDefaultBatchSize == 50

Paths == {"a", "b"}
DefaultMessage == "Add files"
NonEmptyMessage == "Files must be a non-empty array"
ExecError == "Command failed"
Messages == {"Add X"}

\* A JavaScript value that may be undefined: <<>> is undefined, <<v>> is v.
Undefined == <<>>
Def(v) == <<v>>

RECURSIVE SeqsUpTo(_)
SeqsUpTo(n) ==
    IF n = 0 THEN {<<>>}
    ELSE LET shorter == SeqsUpTo(n - 1)
         IN shorter \cup {Append(s, p) : s \in {t \in shorter : Len(t) = n - 1}, p \in Paths}

FileLists == SeqsUpTo(MaxLen)

SizeOptions == {Undefined} \cup {Def(n) : n \in -1..MaxSize}
DelayOptions == {Undefined, Def(-1), Def(0), Def(2)}
FlagOptions == {Undefined, Def(TRUE)}

OptionsSet == [batchSize : SizeOptions, delay : DelayOptions,
               verbose : FlagOptions, dryRun : FlagOptions]

\* ------------------------------------------------------------- helpers
\* JavaScript `value || fallback` for a number: undefined and 0 are falsy.
NumOr(v, fallback) == IF v = Undefined \/ v[1] = 0 THEN fallback ELSE v[1]

\* JavaScript `value || false` for a boolean.
BoolOr(v) == IF v = Undefined THEN FALSE ELSE v[1]

Min(a, b) == IF a < b THEN a ELSE b
Max(a, b) == IF a > b THEN a ELSE b

\* Array.prototype.slice index normalisation: negative counts from the end.
RelIndex(k, len) == IF k < 0 THEN Max(len + k, 0) ELSE Min(k, len)

\* Faulty variant: the end index is taken as inclusive-minus-one, so every
\* slice loses its last element.
slice_shortEnd(arr, start, end) ==
    LET from == RelIndex(start, Len(arr))
        to   == RelIndex(end, Len(arr)) - 1
    IN IF to <= from THEN <<>> ELSE SubSeq(arr, from + 1, to)

\* Array.prototype.slice(start, end) on a 0-based array held as a sequence.
slice(arr, start, end) ==
    LET from == RelIndex(start, Len(arr))
        to   == RelIndex(end, Len(arr))
    IN IF to <= from THEN <<>> ELSE SubSeq(arr, from + 1, to)

\* Faulty variant: the loop index is never advanced.
RECURSIVE createBatchesLoop_noStep(_, _, _, _, _)
createBatchesLoop_noStep(fs, bs, i, batches, fuel) ==
    IF ~(i < Len(fs)) THEN [returns |-> TRUE, batches |-> batches]
    ELSE IF fuel = 0 THEN [returns |-> FALSE, batches |-> batches]
    ELSE createBatchesLoop_noStep(fs, bs, i, Append(batches, slice(fs, i, i + bs)), fuel - 1)

\* Faulty variant: the loop test is i <= files.length.
RECURSIVE createBatchesLoop_le(_, _, _, _, _)
createBatchesLoop_le(fs, bs, i, batches, fuel) ==
    IF ~(i <= Len(fs)) THEN [returns |-> TRUE, batches |-> batches]
    ELSE IF fuel = 0 THEN [returns |-> FALSE, batches |-> batches]
    ELSE createBatchesLoop_le(fs, bs, i + bs, Append(batches, slice(fs, i, i + bs)), fuel - 1)

\* createBatches, lines 78-82: the for loop, followed for at most `fuel`
\* iterations.  returns = FALSE means the loop was still running.
RECURSIVE createBatchesLoop(_, _, _, _, _)
createBatchesLoop(fs, bs, i, batches, fuel) ==
    IF ~(i < Len(fs)) THEN [returns |-> TRUE, batches |-> batches]
    ELSE IF fuel = 0 THEN [returns |-> FALSE, batches |-> batches]
    ELSE createBatchesLoop(fs, bs, i + bs, Append(batches, slice(fs, i, i + bs)), fuel - 1)

\* Faulty variant: the loop starts at i = 1.
createBatches_from1(fs, bs) == createBatchesLoop(fs, bs, 1, <<>>, MaxIter)

\* createBatches, lines 77-83.
createBatches(fs, bs) == createBatchesLoop(fs, bs, 0, <<>>, MaxIter)

\* Faulty variant: the batch number in the message is the 0-based loop index.
commitMessage_zeroBased(baseMessage, batchNum, totalBatches) ==
    IF totalBatches > 1 THEN <<baseMessage, " (batch ", batchNum - 1, "/", totalBatches, ")">>
    ELSE <<baseMessage>>

\* Commit message of lines 102-104, as the pieces of the template string.
commitMessage(baseMessage, batchNum, totalBatches) ==
    IF totalBatches > 1 THEN <<baseMessage, " (batch ", batchNum, "/", totalBatches, ")">>
    ELSE <<baseMessage>>

\* Number of batches the shell script announces, line 188 (integer division
\* of non-negative operands).
scriptBatches(total, bs) == (total + bs - 1) \div bs

\* Faulty variant: the argument check is missing.
isEmptyInput_never(fs) == FALSE

\* Line 27: the argument check of addFilesBatched (the argument is always
\* an array here).
isEmptyInput(fs) == Len(fs) = 0

\* Faulty variant: every iteration takes the first batch.
batchOf_first(batches, i) == batches[1]

\* Faulty variant: the batches are taken from the end of the array.
batchOf_reversed(batches, i) == batches[Len(batches) - i]

\* Lines 38 and 94: const batch = batches[i].
batchOf(batches, i) == batches[i + 1]

\* Faulty variant: the dryRun flag is ignored.
invokesGit_always(dry) == TRUE

\* Lines 46 and 106: git runs only when this is not a dry run.
invokesGit(dry) == ~dry

\* Faulty variant: the catch block logs the error and does not rethrow it.
stageThrows_swallowed(ok) == FALSE

\* Lines 45-64: execSync throws when git add fails and the catch block
\* rethrows the error.
stageThrows(ok) == ~ok

\* Faulty variant: a failed git commit is ignored.
commitThrows_swallowed(ok) == FALSE

\* Lines 107-109: execSync throws when git commit fails; nothing catches it.
commitThrows(ok) == ~ok

\* Faulty variant: the delay is also taken after the last batch.
delayDue_always(i, total, d) == d > 0

\* Faulty variant: sleep() is called without await.
awaits_never(started) == FALSE

\* Lines 59 and 120: `await this.sleep(this.delay)`: the run is suspended
\* exactly when a sleep was started.
awaits(started) == started

\* Lines 58 and 119: the delay is taken between batches only.
delayDue(i, total, d) == i < total - 1 /\ d > 0

\* ------------------------------------------------ analyzeGitStatus helpers
\* Strings handled character by character are sequences of 1-character
\* strings.
Whitespace == {" ", "\n"}

\* Lines a `git status --porcelain` report is made of here: untracked,
\* modified, added, staged-modified, deleted, and a blank line.
StatusLineSamples ==
    { <<"?", "?", " ", "a">>, <<" ", "M", " ", "b">>, <<" ", "A", " ", "a">>,
      <<"M", " ", " ", "a">>, <<" ", "D", " ", "b">>, <<>> }

\* The reports of at most n lines, each as the list of its lines.
RECURSIVE StatusLineLists(_)
StatusLineLists(n) ==
    IF n = 0 THEN {<<>>}
    ELSE LET shorter == StatusLineLists(n - 1)
         IN shorter \cup {<<l>> \o r : l \in StatusLineSamples, r \in shorter}

\* The text git prints for a list of lines: every line ends with a newline.
RECURSIVE reportText(_)
reportText(lines) ==
    IF lines = <<>> THEN <<>> ELSE Head(lines) \o <<"\n">> \o reportText(Tail(lines))

StatusReports(n) == {reportText(ls) : ls \in StatusLineLists(n)}

StatusCauses == {"not a git repository", "Command failed"}

\* String.prototype.split('\n').
RECURSIVE splitLoop(_, _, _)
splitLoop(str, cur, acc) ==
    IF str = <<>> THEN Append(acc, cur)
    ELSE IF Head(str) = "\n" THEN splitLoop(Tail(str), <<>>, Append(acc, cur))
    ELSE splitLoop(Tail(str), Append(cur, Head(str)), acc)

split(str) == splitLoop(str, <<>>, <<>>)

\* String.prototype.trim().
RECURSIVE trimStart(_)
trimStart(str) ==
    IF str # <<>> /\ Head(str) \in Whitespace THEN trimStart(Tail(str)) ELSE str

RECURSIVE trimEnd(_)
trimEnd(str) ==
    IF str # <<>> /\ str[Len(str)] \in Whitespace
    THEN trimEnd(SubSeq(str, 1, Len(str) - 1)) ELSE str

trim(str) == trimEnd(trimStart(str))

\* String.prototype.startsWith(prefix).
startsWith(str, prefix) ==
    Len(str) >= Len(prefix) /\ SubSeq(str, 1, Len(prefix)) = prefix

\* String.prototype.substring(from).
substring(str, from) == SubSeq(str, Min(from, Len(str)) + 1, Len(str))

\* Faulty variant: added files (' A') are not recognised.
isUnstagedLine_noAdded(line) ==
    /\ trim(line) # <<>>
    /\ \/ startsWith(line, <<"?", "?">>)
       \/ startsWith(line, <<" ", "M">>)

\* Line 178: the filter of the status lines (an empty string is falsy).
isUnstagedLine(line) ==
    /\ trim(line) # <<>>
    /\ \/ startsWith(line, <<"?", "?">>)
       \/ startsWith(line, <<" ", "M">>)
       \/ startsWith(line, <<" ", "A">>)

\* Lines 176-179: split, filter, map.
RECURSIVE filterMap(_)
filterMap(lines) ==
    IF lines = <<>> THEN <<>>
    ELSE (IF isUnstagedLine(Head(lines)) THEN <<substring(Head(lines), 3)>> ELSE <<>>)
         \o filterMap(Tail(lines))

unstagedFiles(statusText) == filterMap(split(statusText))

\* Faulty variant: batching is recommended from fileCount = batchSize on.
needsBatching_ge(count, bs) == count >= bs

\* Line 181: unstagedFiles.length > this.batchSize.
needsBatching(count, bs) == count > bs

\* Lines 185-196: the object analyzeGitStatus returns.
analysis(unstaged, bs) ==
    [needsBatching |-> needsBatching(Len(unstaged), bs),
     fileCount |-> Len(unstaged),
     files |-> unstaged]

\* Faulty variant: the message of the cause is dropped.
analyzeError_noCause(message) == <<"Failed to analyze git status">>

\* Line 198: the message of the error thrown by the catch block.
analyzeError(message) == <<"Failed to analyze git status: ", message>>

RECURSIVE Flatten(_)
Flatten(ss) == IF ss = <<>> THEN <<>> ELSE Head(ss) \o Flatten(Tail(ss))

\* ---------------------------------------------------------------- state
VARIABLES
    pc,          \* position of the running operation
    op,          \* operation the caller invoked
    options,     \* options object handed to the constructor
    batchSize, delay, verbose, dryRun,   \* fields of the FileBatcher / script configuration
    files,       \* file list handed to the operation
    baseMessage, \* commit message handed to commitFilesBatched
    status,      \* outcome of `git status --porcelain` in analyzeGitStatus: the text
                 \* printed (out), the lines it was printed from, or the failure
    cBatches, ci,        \* commitFilesBatched: batches and loop index i
    aFiles, aBatches, ai, \* addFilesBatched: argument, batches and loop index i
    si, sBatches,        \* script: loop index i and the announced batch count
    trace,       \* every git invocation, preview and sleep, in order
    outcome,     \* how the operation ended
    result,      \* value the operation returned: Undefined or Def(value)
    thrown,      \* error the operation threw: Undefined or Def(message)
    running,     \* git child processes execSync is waiting for
    timers,      \* pending setTimeout timers of sleep()
    log          \* what the verbose flag decides: the console.log lines it
                 \* guards and the stdio mode handed to each execSync

vars == <<pc, op, options, batchSize, delay, verbose, dryRun, files, baseMessage, status,
          cBatches, ci, aFiles, aBatches, ai, si, sBatches, trace, outcome, result, thrown,
          running, timers, log>>

envVars == <<running, timers>>
config == <<options, batchSize, delay, verbose, dryRun>>
commitVars == <<cBatches, ci>>
addVars == <<aFiles, aBatches, ai>>
scriptVars == <<si, sBatches>>
callVars == <<op, files, baseMessage, status>>

Event(kind, outer, idx, batch, ok, msg, ms) ==
    [kind |-> kind, outer |-> outer, idx |-> idx, batch |-> batch,
     ok |-> ok, msg |-> msg, ms |-> ms]

\* A line written by a console.log that `verbose` guards, with the numbers
\* it prints, or the stdio mode of an execSync call.
LogLine(line, a, b, c) == [line |-> line, a |-> a, b |-> b, c |-> c]

\* if (cond) console.log(entry)
said(l, cond, entry) == IF cond THEN Append(l, entry) ELSE l

\* Lines 50 and 108: stdio: this.verbose ? 'inherit' : 'pipe'.
stdio == IF verbose THEN "inherit" ELSE "pipe"

\* Lines 41-43: the progress line of an addFilesBatched iteration.
processing == LogLine("Processing batch", ai + 1, Len(aBatches), Len(batchOf(aBatches, ai)))

\* Faulty variant: the delay between batches is taken only by a verbose run.
addSleeps_verboseOnly == verbose /\ delayDue(ai, Len(aBatches), delay)

\* Line 58: whether this iteration of addFilesBatched sleeps.
addSleeps == delayDue(ai, Len(aBatches), delay)

Init ==
    /\ pc = "new"
    /\ op = "none"
    /\ options = [batchSize |-> Undefined, delay |-> Undefined,
                  verbose |-> Undefined, dryRun |-> Undefined]
    /\ batchSize = 0 /\ delay = 0 /\ verbose = FALSE /\ dryRun = FALSE
    /\ files = <<>>
    /\ baseMessage = DefaultMessage
    /\ status = [ok |-> TRUE, out |-> <<>>, lines |-> <<>>, message |-> ""]
    /\ cBatches = <<>> /\ ci = 0
    /\ aFiles = <<>> /\ aBatches = <<>> /\ ai = 0
    /\ si = 0 /\ sBatches = 0
    /\ trace = <<>>
    /\ outcome = "none"
    /\ result = Undefined
    /\ thrown = Undefined
    /\ running = 0
    /\ timers = 0
    /\ log = <<>>

\* ---------------------------------------------------------- constructor
\* new FileBatcher(options)
Construct(o) ==
    /\ pc = "new"
    /\ options' = o
    /\ batchSize' = NumOr(o.batchSize, DefaultBatchSize)
    /\ verbose' = BoolOr(o.verbose)
    /\ dryRun' = BoolOr(o.dryRun)
    /\ delay' = NumOr(o.delay, DefaultDelay)
    /\ pc' = "ready"
    /\ UNCHANGED <<log, callVars, commitVars, addVars, scriptVars, trace, outcome, result, thrown, envVars>>

\* ------------------------------------------------------- createBatches
\* batcher.createBatches(files) called directly (batch-demo.js line 90).
CallCreateBatches(f) ==
    /\ pc = "ready"
    /\ op' = "createBatches"
    /\ files' = f
    /\ LET r == createBatches(f, batchSize)
       IN /\ aBatches' = r.batches
          /\ outcome' = IF r.returns THEN "returned" ELSE "diverged"
          /\ result' = IF r.returns THEN Def(r.batches) ELSE Undefined
          /\ UNCHANGED thrown
    /\ pc' = "done"
    /\ UNCHANGED <<log, config, baseMessage, status, commitVars, aFiles, ai, scriptVars, trace, envVars>>

\* ------------------------------------------------------ addFilesBatched
\* batcher.addFilesBatched(files) called by the CLI or the demo.
CallAdd(f) ==
    /\ pc = "ready"
    /\ op' = "add"
    /\ files' = f
    /\ aFiles' = f
    /\ pc' = "add_enter"
    /\ UNCHANGED <<log, config, baseMessage, status, commitVars, aBatches, ai, scriptVars, trace, outcome, result, thrown, envVars>>

\* Lines 27-31: the argument check and the computation of the batches.
AddEnter ==
    /\ pc = "add_enter"
    /\ IF isEmptyInput(aFiles)
       THEN /\ outcome' = "threw_nonEmptyArray"
            /\ thrown' = Def(NonEmptyMessage)
            /\ UNCHANGED result
            /\ pc' = "done"
            /\ UNCHANGED <<aBatches, ai>>
       ELSE LET r == createBatches(aFiles, batchSize)
            IN /\ aBatches' = r.batches
               /\ ai' = 0
               /\ IF r.returns
                  THEN pc' = "add_loop" /\ UNCHANGED <<outcome, result, thrown>>
                  ELSE pc' = "done" /\ outcome' = "diverged" /\ UNCHANGED <<result, thrown>>
    /\ log' = LET r == createBatches(aFiles, batchSize)
              IN said(log, verbose /\ ~isEmptyInput(aFiles) /\ r.returns,
                      LogLine("Adding files", Len(aFiles), Len(r.batches), batchSize))
    /\ UNCHANGED <<config, callVars, commitVars, aFiles, scriptVars, trace, envVars>>

Outer == IF op = "commit" THEN ci + 1 ELSE 0

\* Lines 37-49: the loop test and the start of git add: execSync blocks
\* until the child process ends.
AddExec ==
    /\ pc = "add_loop"
    /\ ai < Len(aBatches)
    /\ invokesGit(dryRun)
    /\ pc' = "add_exec"
    /\ running' = running + 1
    /\ log' = Append(said(log, verbose, processing), LogLine(stdio, 0, 0, 0))
    /\ UNCHANGED <<config, callVars, commitVars, addVars, scriptVars, trace, outcome, result, thrown, timers>>

\* Lines 37-65: the rest of the iteration: git add ends (or the dry-run
\* preview is printed), then the delay starts when this is not the last
\* batch.
AddIteration ==
    /\ \/ pc = "add_exec"
       \/ pc = "add_loop" /\ ai < Len(aBatches) /\ ~invokesGit(dryRun)
    /\ running' = 0
    /\ LET batch == batchOf(aBatches, ai)
           batchNum == ai + 1
           sleeps == addSleeps
           slept(t) == IF sleeps
                       THEN Append(t, Event("sleep", Outer, batchNum, <<>>, TRUE, <<>>, delay))
                       ELSE t
       IN IF invokesGit(dryRun)
          THEN \E ok \in BOOLEAN :
                 LET staged == Append(trace, Event("stage", Outer, batchNum, batch, ok, <<>>, 0))
                 IN IF ~stageThrows(ok)
                    THEN /\ trace' = slept(staged)
                         /\ pc' = IF awaits(sleeps) THEN "add_sleep" ELSE "add_loop"
                         /\ ai' = IF awaits(sleeps) THEN ai ELSE ai + 1
                         /\ timers' = IF sleeps THEN timers + 1 ELSE timers
                         /\ UNCHANGED <<outcome, result, thrown>>
                    ELSE /\ trace' = staged
                         /\ outcome' = "threw_actionFailed"
                         /\ thrown' = Def(ExecError)
                         /\ UNCHANGED result
                         /\ pc' = "done"
                         /\ UNCHANGED <<ai, timers>>
          ELSE /\ trace' = slept(Append(trace, Event("preview_add", Outer, batchNum, batch, TRUE, <<>>, 0)))
               /\ pc' = IF awaits(sleeps) THEN "add_sleep" ELSE "add_loop"
               /\ ai' = IF awaits(sleeps) THEN ai ELSE ai + 1
               /\ timers' = IF sleeps THEN timers + 1 ELSE timers
               /\ UNCHANGED <<outcome, result, thrown>>
    /\ log' = IF pc = "add_exec" THEN log ELSE said(log, verbose, processing)
    /\ UNCHANGED <<config, callVars, commitVars, aFiles, aBatches, scriptVars>>

\* Line 59: the awaited sleep resolves and the loop goes on.
AddWake ==
    /\ pc = "add_sleep"
    /\ timers' = timers - 1
    /\ ai' = ai + 1
    /\ pc' = "add_loop"
    /\ UNCHANGED <<log, config, callVars, commitVars, aFiles, aBatches, scriptVars, trace, outcome, result, thrown, running>>

\* Lines 37, 67-70: the loop is over and addFilesBatched returns, to the
\* caller or into commitFilesBatched (line 99).
AddReturn ==
    /\ pc = "add_loop"
    /\ ~(ai < Len(aBatches))
    /\ IF op = "commit"
       THEN pc' = "commit_git" /\ UNCHANGED <<outcome, result, thrown>>
       ELSE pc' = "done" /\ outcome' = "returned" /\ result' = Undefined /\ UNCHANGED thrown
    /\ log' = said(log, verbose /\ ~dryRun, LogLine("Successfully added", Len(aFiles), 0, 0))
    /\ UNCHANGED <<config, callVars, commitVars, addVars, scriptVars, trace, envVars>>

\* --------------------------------------------------- commitFilesBatched
\* batcher.commitFilesBatched(files, baseMessage) called by the CLI; the
\* message parameter defaults to 'Add files' (line 90).
CallCommit(f, m) ==
    /\ pc = "ready"
    /\ op' = "commit"
    /\ files' = f
    /\ baseMessage' = IF m = Undefined THEN DefaultMessage ELSE m[1]
    /\ pc' = "commit_enter"
    /\ UNCHANGED <<log, config, status, commitVars, addVars, scriptVars, trace, outcome, result, thrown, envVars>>

\* Line 91: the batches of the commit run.
CommitEnter ==
    /\ pc = "commit_enter"
    /\ LET r == createBatches(files, batchSize)
       IN /\ cBatches' = r.batches
          /\ ci' = 0
          /\ IF r.returns
             THEN pc' = "commit_loop" /\ UNCHANGED <<outcome, result, thrown>>
             ELSE pc' = "done" /\ outcome' = "diverged" /\ UNCHANGED <<result, thrown>>
    /\ UNCHANGED <<log, config, callVars, addVars, scriptVars, trace, envVars>>

\* Lines 93-99: the loop test and the call of addFilesBatched(batch).
CommitIteration ==
    /\ pc = "commit_loop"
    /\ ci < Len(cBatches)
    /\ aFiles' = batchOf(cBatches, ci)
    /\ pc' = "add_enter"
    /\ UNCHANGED <<log, config, callVars, commitVars, aBatches, ai, scriptVars, trace, outcome, result, thrown, envVars>>

\* Lines 101-107: the message is built and git commit starts: execSync
\* blocks until the child process ends.
CommitExec ==
    /\ pc = "commit_git"
    /\ invokesGit(dryRun)
    /\ pc' = "commit_exec"
    /\ running' = running + 1
    /\ log' = Append(log, LogLine(stdio, 0, 0, 0))
    /\ UNCHANGED <<config, callVars, commitVars, addVars, scriptVars, trace, outcome, result, thrown, timers>>

\* Lines 101-121: git commit ends (or the dry-run preview is printed) for
\* the batch just added, then the delay starts when this is not the last
\* batch.
CommitGit ==
    /\ \/ pc = "commit_exec"
       \/ pc = "commit_git" /\ ~invokesGit(dryRun)
    /\ running' = 0
    /\ LET batchNum == ci + 1
           totalBatches == Len(cBatches)
           message == commitMessage(baseMessage, batchNum, totalBatches)
           batch == batchOf(cBatches, ci)
           sleeps == delayDue(ci, Len(cBatches), delay)
           slept(t) == IF sleeps
                       THEN Append(t, Event("sleep", batchNum, 0, <<>>, TRUE, <<>>, delay))
                       ELSE t
       IN IF invokesGit(dryRun)
          THEN \E ok \in BOOLEAN :
                 LET committed == Append(trace, Event("commit", batchNum, 0, batch, ok, message, 0))
                 IN IF ~commitThrows(ok)
                    THEN /\ trace' = slept(committed)
                         /\ log' = said(log, verbose, LogLine("Committed batch", batchNum, totalBatches, 0))
                         /\ pc' = IF awaits(sleeps) THEN "commit_sleep" ELSE "commit_loop"
                         /\ ci' = IF awaits(sleeps) THEN ci ELSE ci + 1
                         /\ timers' = IF sleeps THEN timers + 1 ELSE timers
                         /\ UNCHANGED <<outcome, result, thrown>>
                    ELSE /\ trace' = committed
                         /\ outcome' = "threw_actionFailed"
                         /\ thrown' = Def(ExecError)
                         /\ UNCHANGED <<result, log>>
                         /\ pc' = "done"
                         /\ UNCHANGED <<ci, timers>>
          ELSE /\ trace' = slept(Append(trace, Event("preview_commit", batchNum, 0, batch, TRUE, message, 0)))
               /\ log' = said(log, verbose, LogLine("Committed batch", batchNum, totalBatches, 0))
               /\ pc' = IF awaits(sleeps) THEN "commit_sleep" ELSE "commit_loop"
               /\ ci' = IF awaits(sleeps) THEN ci ELSE ci + 1
               /\ timers' = IF sleeps THEN timers + 1 ELSE timers
               /\ UNCHANGED <<outcome, result, thrown>>
    /\ UNCHANGED <<config, callVars, cBatches, addVars, scriptVars>>

\* Line 120: the awaited sleep resolves and the loop goes on.
CommitWake ==
    /\ pc = "commit_sleep"
    /\ timers' = timers - 1
    /\ ci' = ci + 1
    /\ pc' = "commit_loop"
    /\ UNCHANGED <<log, config, callVars, cBatches, addVars, scriptVars, trace, outcome, result, thrown, running>>

\* Lines 93, 123: the loop is over and commitFilesBatched returns.
CommitReturn ==
    /\ pc = "commit_loop"
    /\ ~(ci < Len(cBatches))
    /\ pc' = "done"
    /\ outcome' = "returned"
    /\ result' = Undefined
    /\ UNCHANGED thrown
    /\ UNCHANGED <<log, config, callVars, commitVars, addVars, scriptVars, trace, envVars>>

\* ----------------------------------------------------- analyzeGitStatus
\* batcher.analyzeGitStatus(), lines 173-200: it has no await, so the whole
\* call is one step.  `st` is what execSync('git status --porcelain') does:
\* it returns the report or throws.
AnalyzeGitStatus(st) ==
    /\ pc = "ready"
    /\ op' = "analyze"
    /\ status' = st
    /\ pc' = "done"
    /\ IF st.ok
       THEN /\ result' = Def(analysis(unstagedFiles(st.out), batchSize))
            /\ outcome' = "returned"
            /\ UNCHANGED thrown
       ELSE /\ thrown' = Def(analyzeError(st.message))
            /\ outcome' = "threw_statusFailed"
            /\ UNCHANGED result
    /\ UNCHANGED <<log, config, files, baseMessage, commitVars, addVars, scriptVars, trace, envVars>>

StatusOutcomes ==
    {[ok |-> TRUE, out |-> reportText(ls), lines |-> ls, message |-> ""] :
        ls \in StatusLineLists(MaxStatus)}
    \cup {[ok |-> FALSE, out |-> <<>>, lines |-> <<>>, message |-> c] : c \in StatusCauses}

\* ------------------------------------------------------- the shell script
\* The script from its start to the batch loop: configuration (lines 10-12,
\* 62-110), the repository check (113-116), the file list (119-169), the
\* empty and dry-run exits (171-185) and the batch count (188).  Batch sizes
\* below 1 are not explored for the script.
ScriptStart(bs, v, d, f, inRepo) ==
    /\ pc = "new"
    /\ op' = "script"
    /\ batchSize' = bs
    /\ verbose' = v
    /\ dryRun' = d
    /\ files' = IF inRepo THEN f ELSE <<>>
    /\ IF ~inRepo
       THEN pc' = "done" /\ outcome' = "exit1" /\ UNCHANGED <<trace, scriptVars, result, thrown>>
       ELSE IF Len(f) = 0
       THEN pc' = "done" /\ outcome' = "exit0" /\ UNCHANGED <<trace, scriptVars, result, thrown>>
       ELSE IF d
       THEN /\ pc' = "done" /\ outcome' = "exit0" /\ UNCHANGED <<result, thrown>>
            /\ trace' = Append(trace, Event("preview_add", 0, 0, f, TRUE, <<>>, 0))
            /\ UNCHANGED scriptVars
       ELSE /\ pc' = "script_loop"
            /\ sBatches' = scriptBatches(Len(f), bs)
            /\ si' = 0
            /\ UNCHANGED <<trace, outcome, result, thrown>>
    /\ UNCHANGED <<log, options, delay, baseMessage, status, commitVars, addVars, envVars>>

\* Lines 199-232: one iteration of the batch loop.  sleep 0.1 is 100 ms.
ScriptIteration ==
    /\ pc = "script_loop"
    /\ si < Len(files)
    /\ LET batch_num == (si \div batchSize) + 1
           batch_files == SubSeq(files, si + 1, Min(si + batchSize, Len(files)))
           sleeps == batch_num < sBatches
       IN \E ok \in BOOLEAN :
            LET added == Append(trace, Event("stage", 0, batch_num, batch_files, ok, <<>>, 0))
            IN IF ok
               THEN /\ trace' = IF sleeps
                                THEN Append(added, Event("sleep", 0, batch_num, <<>>, TRUE, <<>>, 100))
                                ELSE added
                    /\ si' = si + batchSize
                    /\ UNCHANGED <<pc, outcome, result, thrown>>
               ELSE /\ trace' = added
                    /\ pc' = "done"
                    /\ outcome' = "exit1"
                    /\ UNCHANGED <<result, thrown>>
                    /\ UNCHANGED si
    /\ UNCHANGED <<log, config, callVars, commitVars, addVars, sBatches, envVars>>

\* Lines 199, 234-251: the loop is over; the summary is printed.
ScriptFinish ==
    /\ pc = "script_loop"
    /\ ~(si < Len(files))
    /\ pc' = "done"
    /\ outcome' = "exit0"
    /\ UNCHANGED <<result, thrown>>
    /\ UNCHANGED <<log, config, callVars, commitVars, addVars, scriptVars, trace, envVars>>

ScriptSizes == (1..MaxSize) \cup {ScriptDefaultBatchSize}

\* ------------------------------------------------------------ behaviour
Next ==
    \/ \E o \in OptionsSet : Construct(o)
    \/ \E f \in FileLists : CallCreateBatches(f)
    \/ \E f \in FileLists : CallAdd(f)
    \/ AddEnter
    \/ AddExec
    \/ AddIteration
    \/ AddWake
    \/ AddReturn
    \/ \E f \in FileLists, m \in {Undefined} \cup {Def(x) : x \in Messages} : CallCommit(f, m)
    \/ CommitEnter
    \/ CommitIteration
    \/ CommitExec
    \/ CommitGit
    \/ CommitWake
    \/ CommitReturn
    \/ \E bs \in ScriptSizes, v \in BOOLEAN, d \in BOOLEAN, f \in FileLists, inRepo \in BOOLEAN :
          ScriptStart(bs, v, d, f, inRepo)
    \/ ScriptIteration
    \/ ScriptFinish
    \/ \E st \in StatusOutcomes : AnalyzeGitStatus(st)

Spec == Init /\ [][Next]_vars

\* =============================================================== claims
\* Ceiling of n / s for s >= 1, from its definition.
CeilDiv(n, s) == CHOOSE k \in 0..n : k * s >= n /\ (k = 0 \/ (k - 1) * s < n)

\* The <<input, result>> pairs of the createBatches calls whose result the
\* current state holds.
Computed ==
    (IF op = "createBatches" /\ pc = "done" THEN {<<files, aBatches>>} ELSE {})
    \cup (IF op = "commit" /\ pc # "commit_enter" THEN {<<files, cBatches>>} ELSE {})
    \cup (IF pc \in {"add_loop", "add_sleep"} THEN {<<aFiles, aBatches>>} ELSE {})

\* C1: for a non-empty file list and a batch size >= 1, concatenating the
\* batches of createBatches in order gives back the file list exactly.
C1_PartitionComplete ==
    batchSize >= 1 =>
        \A c \in Computed : c[1] # <<>> => Flatten(c[2]) = c[1]

C1_Witness ==
    /\ op = "createBatches" /\ pc = "done" /\ outcome = "returned"
    /\ batchSize = 3 /\ Len(files) = 4 /\ files[1] # files[2]
    /\ Len(aBatches) = 2 /\ Flatten(aBatches) = files

\* C8: for a list of N files (N = 0 included) and a batch size S >= 1,
\* createBatches returns ceil(N/S) batches: none when N = 0 and one batch
\* holding every file when 1 <= N <= S; the script announces the same count.
C8_BatchCount ==
    batchSize >= 1 =>
        /\ \A c \in Computed :
              /\ Len(c[2]) = CeilDiv(Len(c[1]), batchSize)
              /\ Len(c[1]) = 0 => c[2] = <<>>
              /\ (1 <= Len(c[1]) /\ Len(c[1]) <= batchSize) => c[2] = <<c[1]>>
        /\ (op = "script" /\ pc = "script_loop") => sBatches = CeilDiv(Len(files), batchSize)

C8_Witness ==
    /\ op = "createBatches" /\ pc = "done" /\ outcome = "returned"
    /\ batchSize >= 1 /\ files = <<>> /\ aBatches = <<>>

\* C9: with a batch size S >= 1 every batch but the last holds exactly S
\* files, the last holds N mod S files, or S when N mod S = 0, and no batch
\* is empty.
C9_BatchSizes ==
    batchSize >= 1 =>
        \A c \in Computed : \A k \in 1..Len(c[2]) :
            /\ Len(c[2][k]) >= 1
            /\ Len(c[2][k]) = IF k < Len(c[2]) THEN batchSize
                              ELSE IF Len(c[1]) % batchSize = 0 THEN batchSize
                              ELSE Len(c[1]) % batchSize

C9_Witness ==
    /\ op = "add" /\ pc = "add_loop" /\ batchSize = 3
    /\ Len(aFiles) = 4 /\ Len(aBatches) = 2
    /\ Len(aBatches[1]) = 3 /\ Len(aBatches[2]) = 1

IsStage(e) == e.kind = "stage"
StageEvents == SelectSeq(trace, IsStage)
StageFailures == {p \in 1..Len(trace) : trace[p].kind = "stage" /\ ~trace[p].ok}
CommitFailures == {p \in 1..Len(trace) : trace[p].kind = "commit" /\ ~trace[p].ok}

\* C2: a batcher constructed with batch size 0 or a negative batch size
\* fails with an InvalidConfiguration error when asked to partition or run,
\* before anything is staged.
C2_InvalidSizeFailsFast ==
    (/\ pc = "done" /\ op \in {"createBatches", "add", "commit"}
     /\ options.batchSize # Undefined /\ options.batchSize[1] <= 0)
    => (outcome = "threw_invalidConfiguration" /\ trace = <<>>)

\* C3: when the stage action fails on batch k the run ends there with the
\* failure: nothing is invoked after the failed stage, and no commit was
\* invoked for batch k.
C3_HaltOnStageFailure ==
    \A p \in StageFailures :
        /\ p = Len(trace)
        /\ pc = "done"
        /\ outcome \in {"threw_actionFailed", "exit1"}
        /\ \A q \in 1..Len(trace) : trace[q].kind = "commit" => trace[q].outer < trace[p].outer

C3_Witness ==
    /\ op = "commit" /\ pc = "done" /\ outcome = "threw_actionFailed"
    /\ Len(cBatches) = 3 /\ Len(trace) >= 3
    /\ trace[Len(trace)].kind = "stage" /\ ~trace[Len(trace)].ok
    /\ trace[Len(trace)].outer = 2

\* C4: a fully successful add run invokes the stage action once per batch,
\* the i-th invocation with batch i (files [(i-1)*S, i*S) of the list).
C4_SequentialOrder ==
    (op = "add" /\ pc = "done" /\ outcome = "returned" /\ ~dryRun) =>
        /\ Len(StageEvents) = CeilDiv(Len(files), batchSize)
        /\ \A i \in 1..Len(StageEvents) :
              /\ StageEvents[i].ok
              /\ StageEvents[i].idx = i
              /\ StageEvents[i].batch =
                    SubSeq(files, (i - 1) * batchSize + 1, Min(i * batchSize, Len(files)))

C4_Witness ==
    /\ op = "add" /\ pc = "done" /\ outcome = "returned" /\ ~dryRun
    /\ batchSize = 1 /\ Len(files) = 3 /\ files[1] # files[3]
    /\ Len(StageEvents) = 3

\* C5: with dryRun = true no run ever invokes git add or git commit.
C5_DryRunPurity ==
    dryRun => \A p \in 1..Len(trace) : trace[p].kind \notin {"stage", "commit"}

C5_Witness ==
    /\ dryRun /\ op = "commit" /\ pc = "done" /\ outcome = "returned"
    /\ Len(cBatches) = 2 /\ Len(trace) >= 4
    /\ trace[Len(trace)].kind = "preview_commit"

\* C6: an add run given an empty file list fails with the empty-input error
\* before it computes batches or enters the loop: no stage, no delay.
C6_AddEmptyInput ==
    (op = "add" /\ files = <<>>) =>
        /\ trace = <<>>
        /\ aBatches = <<>>
        /\ pc \in {"add_enter", "done"}
        /\ pc = "done" => outcome = "threw_nonEmptyArray"

C6_Witness ==
    op = "add" /\ files = <<>> /\ pc = "done" /\ outcome = "threw_nonEmptyArray"

\* C7: a commit-mode run given an empty file list fails with the
\* empty-input error.
C7_CommitEmptyInput ==
    (op = "commit" /\ files = <<>> /\ pc = "done") => outcome = "threw_nonEmptyArray"

\* C10: when the commit action fails on batch k the run ends there with the
\* failure: no stage, commit or delay follows the failed commit.
C10_HaltOnCommitFailure ==
    \A p \in CommitFailures :
        /\ p = Len(trace)
        /\ pc = "done"
        /\ outcome = "threw_actionFailed"
        /\ op = "commit"

C10_Witness ==
    /\ op = "commit" /\ pc = "done" /\ outcome = "threw_actionFailed"
    /\ Len(cBatches) = 3 /\ delay > 0 /\ Len(trace) = 2
    /\ trace[2].kind = "commit" /\ ~trace[2].ok /\ trace[2].outer = 1

IsStagedOk(e) == e.kind = "stage" /\ e.ok
StagedOk == SelectSeq(trace, IsStagedOk)
BatchesOf(evs) == [k \in 1..Len(evs) |-> evs[k].batch]
StagedItems == Flatten(BatchesOf(StagedOk))
BatchNo(e) == IF op = "commit" THEN e.outer ELSE e.idx
WholeBatch(k) == SubSeq(files, (k - 1) * batchSize + 1, Min(k * batchSize, Len(files)))

\* C11: at every point of a run, also after a failure, the files staged so
\* far are a prefix of the file list made of whole batches: the k-th
\* successful stage is batch k, so the staged files are files [0, j*S).
C11_StagedPrefix ==
    op \in {"add", "commit", "script"} =>
        /\ \E j \in 0..Len(files) :
              StagedItems = SubSeq(files, 1, Min(j * Max(batchSize, 0), Len(files)))
        /\ \A k \in 1..Len(StagedOk) :
              /\ BatchNo(StagedOk[k]) = k
              /\ StagedOk[k].batch = WholeBatch(k)

C11_Witness ==
    /\ op = "commit" /\ pc = "done" /\ outcome = "threw_actionFailed"
    /\ batchSize = 1 /\ Len(files) = 4 /\ files[1] # files[2]
    /\ Len(StagedOk) = 2 /\ StagedItems = SubSeq(files, 1, 2)
    /\ ~trace[Len(trace)].ok

IsSleep(e) == e.kind = "sleep"
SleepEvents == SelectSeq(trace, IsSleep)
IsBatchAction(e) == e.kind \in {"stage", "preview_add", "commit", "preview_commit"}
\* Positions of the trace at which the processing of a batch ends: the git
\* add (or its preview) in an add or script run, the git commit (or its
\* preview) in a commit run.
BatchEnds ==
    {p \in 1..Len(trace) :
        IF op = "commit" THEN trace[p].kind \in {"commit", "preview_commit"}
        ELSE trace[p].kind \in {"stage", "preview_add"}}

\* C12: a fully successful run over B >= 1 batches with a delay > 0 takes
\* exactly B - 1 delays: one right after each batch except the last, none
\* after the last; in add mode, in commit mode and in the script.
C12_DelayCount ==
    (/\ pc = "done" /\ files # <<>>
     /\ \/ (op \in {"add", "commit"} /\ outcome = "returned" /\ delay > 0)
        \/ (op = "script" /\ outcome = "exit0" /\ ~dryRun))
    => LET B == CeilDiv(Len(files), batchSize)
       IN /\ Cardinality(BatchEnds) = B
          /\ Len(SleepEvents) = B - 1
          /\ trace[Len(trace)].kind # "sleep"
          /\ \A p \in BatchEnds : p < Len(trace) => trace[p + 1].kind = "sleep"
          /\ \A p \in 1..Len(trace) : trace[p].kind = "sleep" => (p - 1) \in BatchEnds

C12_Witness ==
    /\ op = "commit" /\ pc = "done" /\ outcome = "returned" /\ ~dryRun /\ delay > 0
    /\ Len(cBatches) = 3 /\ Len(SleepEvents) = 2

\* C13: when the configured delay is 0 the run never suspends between
\* batches: it takes no delay at all.
C13_ZeroDelayNoSleep ==
    (op \in {"add", "commit"} /\ options.delay = Def(0)) => SleepEvents = <<>>

IsCommitLike(e) == e.kind \in {"commit", "preview_commit"}
CommitLike == SelectSeq(trace, IsCommitLike)

\* C14: in a commit run over N batches the message of the i-th commit is the
\* base message followed by " (batch i/N)" when N > 1, and the base message
\* alone when N = 1.
C14_CommitMessage ==
    op = "commit" =>
        LET N == CeilDiv(Len(files), batchSize)
        IN \A i \in 1..Len(CommitLike) :
              CommitLike[i].msg = IF N > 1
                                  THEN <<baseMessage, " (batch ", i, "/", N, ")">>
                                  ELSE <<baseMessage>>

C14_Witness ==
    /\ op = "commit" /\ pc = "done" /\ outcome = "returned" /\ ~dryRun
    /\ Len(CommitLike) = 3
    /\ CommitLike[1].msg = <<"Add X", " (batch ", 1, "/", 3, ")">>
    /\ CommitLike[3].msg = <<"Add X", " (batch ", 3, "/", 3, ")">>

IsAddLike(e) == e.kind \in {"stage", "preview_add"}
AddLike == SelectSeq(trace, IsAddLike)

\* Every batch was handed once, in order, to git add and (in a commit run)
\* to git commit; in a dry run to the previews instead.
EveryBatchOnceInOrder(gitRan) ==
    LET B == CeilDiv(Len(files), batchSize)
    IN /\ Len(AddLike) = B
       /\ \A k \in 1..Len(AddLike) :
             /\ AddLike[k].kind = IF gitRan THEN "stage" ELSE "preview_add"
             /\ AddLike[k].ok
             /\ AddLike[k].batch = WholeBatch(k)
       /\ Len(CommitLike) = IF op = "commit" THEN B ELSE 0
       /\ \A k \in 1..Len(CommitLike) :
             /\ CommitLike[k].kind = IF gitRan THEN "commit" ELSE "preview_commit"
             /\ CommitLike[k].ok
             /\ CommitLike[k].batch = WholeBatch(k)

\* C15 as claimed: on a fully successful run every batch has been staged
\* (and committed, in commit mode) exactly once in order, and the run
\* returns the summary {totalItems, batchCount}.
C15_SuccessSummary ==
    (pc = "done" /\ op \in {"add", "commit"} /\ outcome = "returned") =>
        /\ EveryBatchOnceInOrder(TRUE)
        /\ result = Def([totalItems |-> Len(files),
                         batchCount |-> CeilDiv(Len(files), batchSize)])

\* C15 as amended: on a fully successful run with dryRun = false every batch
\* has been staged (and committed, in commit mode) exactly once in order;
\* with dryRun = true every batch has been previewed once in order instead;
\* the run returns no value and throws nothing.
C15_SuccessPostcondition ==
    (pc = "done" /\ op \in {"add", "commit"} /\ outcome = "returned") =>
        /\ EveryBatchOnceInOrder(~dryRun)
        /\ result = Undefined
        /\ thrown = Undefined

C15_Witness ==
    /\ pc = "done" /\ op = "commit" /\ outcome = "returned" /\ ~dryRun
    /\ batchSize = 2 /\ Len(files) = 3 /\ files[1] # files[3]
    /\ Len(StagedOk) = 2 /\ Len(CommitLike) = 2
    /\ result = Undefined

\* C16: with dryRun = true every run ends, and ends either in success or in
\* a configuration/input validation error, never in an action failure.
C16_DryRunNeverFails ==
    (dryRun /\ pc = "done" /\ op \in {"add", "commit"}) =>
        outcome \in {"returned", "threw_nonEmptyArray", "threw_invalidConfiguration"}

\* C17: analyzeGitStatus returns fileCount equal to the number of files it
\* reports, and needsBatching true exactly when fileCount > batchSize.
C17_NeedsBatching ==
    (op = "analyze" /\ pc = "done" /\ outcome = "returned") =>
        /\ result # Undefined
        /\ result[1].fileCount = Len(result[1].files)
        /\ result[1].needsBatching = (result[1].fileCount > batchSize)

C17_Witness ==
    /\ op = "analyze" /\ pc = "done" /\ outcome = "returned"
    /\ batchSize = 2 /\ result[1].fileCount = 2 /\ ~result[1].needsBatching

\* C18: when the status query fails, analyzeGitStatus fails with an error
\* that carries the message of the cause, and returns no result at all.
C18_StatusQueryFailed ==
    (op = "analyze" /\ pc = "done" /\ ~status.ok) =>
        /\ outcome = "threw_statusFailed"
        /\ result = Undefined
        /\ thrown # Undefined
        /\ Len(thrown[1]) = 2
        /\ thrown[1][2] = status.message

C18_Witness ==
    /\ op = "analyze" /\ pc = "done" /\ ~status.ok
    /\ status.message = "not a git repository"
    /\ outcome = "threw_statusFailed" /\ result = Undefined

\* C19: no two git actions are ever in flight together, no action is in
\* flight while a delay is pending, and the run is suspended exactly while
\* a git action executes or a delay is pending.
C19_NoOverlap ==
    /\ running <= 1
    /\ timers <= 1
    /\ ~(running > 0 /\ timers > 0)
    /\ (running > 0) <=> (pc \in {"add_exec", "commit_exec"})
    /\ (timers > 0) <=> (pc \in {"add_sleep", "commit_sleep"})

C19_Witness ==
    /\ op = "commit" /\ pc = "commit_exec" /\ running = 1 /\ timers = 0
    /\ ci = 1 /\ Len(SleepEvents) = 1

IsGitAction(e) == e.kind \in {"stage", "commit"}
GitActions == SelectSeq(trace, IsGitAction)

\* C20: in a commit run the git actions alternate batch by batch: the trace
\* is always a prefix of stage 1, commit 1, stage 2, commit 2, ..., an
\* action is invoked only when every action before it succeeded, and a
\* successful run over N batches has invoked all 2N of them.
C20_StageCommitAlternate ==
    op = "commit" =>
        /\ \A p \in 1..Len(GitActions) :
              /\ GitActions[p].kind = IF p % 2 = 1 THEN "stage" ELSE "commit"
              /\ GitActions[p].outer = (p + 1) \div 2
              /\ GitActions[p].batch = WholeBatch((p + 1) \div 2)
              /\ p < Len(GitActions) => GitActions[p].ok
        /\ (pc = "done" /\ outcome = "returned" /\ ~dryRun) =>
              Len(GitActions) = 2 * CeilDiv(Len(files), batchSize)

C20_Witness ==
    /\ op = "commit" /\ pc = "done" /\ outcome = "returned" /\ ~dryRun
    /\ Len(GitActions) = 4
    /\ GitActions[1].kind = "stage" /\ GitActions[2].kind = "commit"
    /\ GitActions[3].kind = "stage" /\ GitActions[4].kind = "commit"
    /\ GitActions[3].outer = 2

RecognisedPrefixes == {<<"?", "?">>, <<" ", "M">>, <<" ", "A">>}
HasRecognisedPrefix(line) == Len(line) >= 2 /\ <<line[1], line[2]>> \in RecognisedPrefixes
PathOf(line) == [k \in 1..(Len(line) - 3) |-> line[k + 3]]
RECURSIVE ReportedPaths(_)
ReportedPaths(lines) ==
    IF lines = <<>> THEN <<>>
    ELSE LET rest == ReportedPaths(Tail(lines))
         IN IF HasRecognisedPrefix(Head(lines)) THEN <<PathOf(Head(lines))>> \o rest ELSE rest

\* C21: analyzeGitStatus reports exactly the paths of the status lines whose
\* two-character prefix is '??', ' M' or ' A', in the order of the report;
\* lines with another prefix and blank lines are ignored.
C21_ReportedFiles ==
    (op = "analyze" /\ pc = "done" /\ status.ok) =>
        /\ outcome = "returned"
        /\ result # Undefined
        /\ result[1].files = ReportedPaths(status.lines)

C21_Witness ==
    /\ op = "analyze" /\ pc = "done" /\ status.ok
    /\ status.lines = << <<"M", " ", " ", "a">>, <<" ", "A", " ", "a">>, <<"?", "?", " ", "a">> >>
    /\ result[1].files = << <<"a">>, <<"a">> >>

\* The steps of a run that the JavaScript runtime takes by itself once the
\* run was started: the code after a call, after execSync returns and after
\* the timer of an awaited sleep fires.
RunStep ==
    \/ AddEnter \/ AddExec \/ AddIteration \/ AddWake \/ AddReturn
    \/ CommitEnter \/ CommitIteration \/ CommitExec \/ CommitGit \/ CommitWake \/ CommitReturn

\* The behaviours in which every git call and every delay completes.
LiveSpec == Init /\ [][Next]_vars /\ WF_vars(RunStep)

RunEnded == pc = "done" /\ outcome \in {"returned", "threw_actionFailed", "threw_nonEmptyArray"}

\* C22: with a batch size >= 1 createBatches always terminates, and every
\* add or commit run eventually ends, in success or in a propagated
\* failure, when every git call and every delay completes.
C22_RunTerminates ==
    /\ [](batchSize >= 1 => outcome # "diverged")
    /\ [](op = "createBatches" /\ batchSize >= 1 => pc = "done" /\ outcome = "returned")
    /\ (op \in {"add", "commit"} /\ batchSize >= 1) ~> RunEnded

C22_Witness ==
    /\ op = "add" /\ RunEnded /\ outcome = "returned"
    /\ batchSize = 1 /\ Len(files) = 4 /\ Len(SleepEvents) = 3


\* What addFilesBatched(fs) does when every git call succeeds, written
\* without the verbose flag: one stage action (or dry-run preview) per batch,
\* and a delay after every batch but the last when the delay is positive.
AddScript(outer, fs, bs, ms, dry) ==
    LET bt == createBatches(fs, bs).batches
        step(k) ==
            <<Event(IF dry THEN "preview_add" ELSE "stage", outer, k, bt[k], TRUE, <<>>, 0)>>
            \o (IF k < Len(bt) /\ ms > 0
                THEN <<Event("sleep", outer, k, <<>>, TRUE, <<>>, ms)>> ELSE <<>>)
    IN Flatten([k \in 1..Len(bt) |-> step(k)])

\* The same for commitFilesBatched(fs, msg): per batch the add run of the
\* batch, the commit (or its preview) with its message, and the delay.
CommitScript(fs, bs, ms, dry, msg) ==
    LET bt == createBatches(fs, bs).batches
        step(j) ==
            AddScript(j, bt[j], bs, ms, dry)
            \o <<Event(IF dry THEN "preview_commit" ELSE "commit", j, 0, bt[j], TRUE,
                       commitMessage(msg, j, Len(bt)), 0)>>
            \o (IF j < Len(bt) /\ ms > 0
                THEN <<Event("sleep", j, 0, <<>>, TRUE, <<>>, ms)>> ELSE <<>>)
    IN Flatten([j \in 1..Len(bt) |-> step(j)])

\* The actions and delays of the current run when nothing fails, as a
\* function of the file list, the batch size, the delay, the dryRun flag and
\* the message only.
RunScript ==
    IF ~createBatches(files, batchSize).returns THEN <<>>
    ELSE IF op = "add" THEN AddScript(0, files, batchSize, delay, dryRun)
    ELSE CommitScript(files, batchSize, delay, dryRun, baseMessage)

\* The outcome of the ended run, as a function of the same inputs and of the
\* outcomes of its actions.
RunOutcome ==
    IF op = "add" /\ files = <<>> THEN "threw_nonEmptyArray"
    ELSE IF ~createBatches(files, batchSize).returns THEN "diverged"
    ELSE IF trace # <<>> /\ ~trace[Len(trace)].ok THEN "threw_actionFailed"
    ELSE "returned"

\* C23: the verbose flag does not change what a run does.  What an add or
\* commit run has done so far is the run determined by the file list, the
\* batch size, the delay, the dryRun flag and the message alone, up to its
\* first failed action, and the run ends as those inputs and the action
\* outcomes determine; so a verbose and a quiet run with the same inputs and
\* action outcomes perform the same stage actions, commit actions (with the
\* same messages) and delays and end with the same outcome.
C23_VerboseIrrelevant ==
    op \in {"add", "commit"} =>
        /\ Len(trace) <= Len(RunScript)
        /\ \A k \in 1..Len(trace) :
              /\ [trace[k] EXCEPT !.ok = TRUE] = RunScript[k]
              /\ k < Len(trace) => trace[k].ok
        /\ pc = "done" =>
              /\ outcome = RunOutcome
              /\ outcome = "returned" => Len(trace) = Len(RunScript)

C23_Witness ==
    /\ op = "commit" /\ pc = "done" /\ verbose /\ ~dryRun
    /\ outcome = "threw_actionFailed"
    /\ Len(trace) = 5 /\ Len(SleepEvents) = 1
    /\ trace[5].kind = "commit"
    /\ Len(log) = 11 /\ log[11].line = "inherit"

====
